---- MODULE Spec2Model ----
(***************************************************************************)
(* Redirect manager: the serverless redirect resolver of                   *)
(* api/r/[...slug].js and the management UI (the three App variants),      *)
(* modelled as state machines over the stores they share.                  *)
(*                                                                         *)
(* Resolver.                                                               *)
(* Several invocations of the handler run concurrently in one warm         *)
(* function instance.  They share the module-level Firebase Admin state    *)
(* (admin.apps) and the process environment, and they read the root        *)
(* Firestore collection 'components'.  An invocation runs synchronously up *)
(* to `await docRef.get()`; the store then resolves the read, rejects it,  *)
(* or never settles it.                                                    *)
(*                                                                         *)
(* Path segments are the non-empty strings the route hands to the handler  *)
(* in req.query.slug.                                                      *)
(*                                                                         *)
(* Management UI.  One of three builds is deployed: the local build keeps  *)
(* the records in React state mirrored to localStorage, the global build   *)
(* keeps them in the root Firestore collection 'components' with the       *)
(* owner's uid, and the per-user build (src/App.js) keeps them in          *)
(* artifacts/{appId}/users/{uid}/components.  The handlers are modelled as  *)
(* the functions they are: their componentId argument ranges over all ids, *)
(* and the form fields they read are the values in the form when the       *)
(* handler is called.  A Firestore handler runs up to its await; the write *)
(* is then applied or refused by the store and the handler continues.  A   *)
(* session awaits one write at a time, and its own onSnapshot listener     *)
(* sees the write when it is applied; the writes of others reach the list  *)
(* when a snapshot is delivered.                                           *)
(*                                                                         *)
(* Text.  Names are sequences of characters, so that generateComponentId   *)
(* is computed character by character; document ids, stored names and     *)
(* URLs are strings.                                                       *)
(***************************************************************************)
EXTENDS Integers, Sequences, FiniteSets, TLC

----------------------------------------------------------------------------
(* Bounds *)

\* number of handler invocations that may overlap
NumInvocations == 2

Invocations == 1..NumInvocations

----------------------------------------------------------------------------
(* Values *)

\* a field that a Firestore document does not have (JS undefined)
Undefined == "<undefined>"

\* document ids that may exist in the 'components' collection
DocIds == {"card"}

\* component ids that requests ask for
RequestIds == {"card", "missing"}

\* branch segments that requests carry
Branches == {"main", "latest", "other"}

\* values of the mainUrl / latestUrl fields of a stored document
FieldValues == {Undefined, "", "https://example.com/m", "https://example.com/l"}

\* a document slot of a collection: absent, or a document with its fields
NoDoc ==
    [exists |-> FALSE, uid |-> Undefined, name |-> Undefined,
     mainUrl |-> Undefined, latestUrl |-> Undefined]

\* the documents the resolver may find under an id
StoredDocs ==
    {NoDoc} \cup
    {[exists |-> TRUE, uid |-> "alice", name |-> "Card", mainUrl |-> m, latestUrl |-> l] :
        m \in FieldValues, l \in FieldValues}

\* req.query: slug is absent, or an array of path segments
NoSlugQuery == [present |-> FALSE, slug |-> <<>>]

Queries ==
    {NoSlugQuery} \cup
    {[present |-> TRUE, slug |-> s] :
        s \in {<<>>} \cup {<<c>> : c \in RequestIds}
              \cup {<<c, b>> : c \in RequestIds, b \in Branches}
              \cup {<<c, b, "extra">> : c \in {"card"}, b \in {"main", "other"}}}

\* process.env.FIREBASE_SERVICE_ACCOUNT_KEY: not set (or empty), set to text
\* that JSON.parse / credential.cert reject, or set to a usable key
EnvKeys == {"unset", "invalid", "valid"}

\* responses
NoLocation == "<none>"

fallbackUrl == "/"

GenericMessage == "Internal Server Error. Please check the function logs for details."

\* res.redirect(status, url)
Redirect(status, url) == [status |-> status, location |-> url, body |-> ""]

\* res.status(500).send(message)
ServerError == [status |-> 500, location |-> NoLocation, body |-> GenericMessage]

----------------------------------------------------------------------------
(* State *)

VARIABLES
    envKey,      \* process.env.FIREBASE_SERVICE_ACCOUNT_KEY
    adminApps,   \* admin.apps.length
    components,  \* the root Firestore collection 'components'
    pc,          \* position of each invocation
    query,       \* req.query of each invocation
    initError,   \* whether initializeFirebaseAdmin threw in the invocation
    lookup,      \* state of the invocation's docRef.get()
    docSnap,     \* the snapshot the read delivered
    reads,       \* number of store reads the invocation issued
    responses,   \* responses the invocation sent on res, in order
    variant,     \* which build of the management UI is deployed
    user,        \* `user` of each UI session
    lsUser,      \* localStorage item 'user'
    list,        \* `components` (React state) of each UI session
    lsComponents,    \* localStorage item 'components'
    userComponents,  \* artifacts/{appId}/users/{uid}/components, per uid
    call,        \* the latest handler call of each UI session and its stage
    error,       \* `error` (React state) of each UI session
    edit,        \* editingComponentId, editedMainUrl, editedLatestUrl
    idName,      \* a name given to generateComponentId
    idDerived,   \* the id derived from idName
    idRederived, \* the id derived from idDerived
    idPc         \* how far the derivation went

\* state of the handler invocations
resolverVars == <<envKey, adminApps, pc, query, initError, lookup, docSnap, reads, responses>>

\* state of the management UI, and the stores only it uses
uiVars == <<variant, user, lsUser, list, lsComponents, userComponents, call, error, edit>>

\* state of the identifier derivation
idVars == <<idName, idDerived, idRederived, idPc>>

vars == <<envKey, adminApps, components, pc, query, initError, lookup, docSnap,
          reads, responses, variant, user, lsUser, list, lsComponents,
          userComponents, call, error, edit, idName, idDerived, idRederived, idPc>>

----------------------------------------------------------------------------
(* The handler's pure parts *)

\* variant of initializeFirebaseAdmin that initialises the app again when
\* one exists, which the Admin SDK refuses
initializeFirebaseAdminAgain(key, apps) ==
    IF key = "unset" THEN [threw |-> TRUE, apps |-> apps]
    ELSE IF key = "invalid" THEN [threw |-> TRUE, apps |-> apps]
    ELSE IF apps > 0 THEN [threw |-> TRUE, apps |-> apps]
    ELSE [threw |-> FALSE, apps |-> apps + 1]

\* initializeFirebaseAdmin(): throws when the key is missing; returns the
\* existing app when one exists; otherwise parses the key (throws on bad
\* text) and initialises the app
initializeFirebaseAdmin(key, apps) ==
    IF key = "unset" THEN [threw |-> TRUE, apps |-> apps]
    ELSE IF apps > 0 THEN [threw |-> FALSE, apps |-> apps]
    ELSE IF key = "invalid" THEN [threw |-> TRUE, apps |-> apps]
    ELSE [threw |-> FALSE, apps |-> apps + 1]

\* variant of InvalidSlug that lets longer paths through
InvalidSlugTooShort(q) == ~q.present \/ Len(q.slug) < 2

\* !slug || slug.length !== 2
InvalidSlug(q) == ~q.present \/ Len(q.slug) # 2

\* variant of InvalidBranch that validates nothing, as api/r/[slug].js
InvalidBranchNever(branch) == FALSE

\* branch !== 'main' && branch !== 'latest'
InvalidBranch(branch) == branch # "main" /\ branch # "latest"

\* variant of Falsy that only recognises an absent field
FalsyOnlyUndefined(v) == v = Undefined

\* !redirectUrl
Falsy(v) == v = Undefined \/ v = ""

\* variant of SelectUrl with the two branches exchanged
SelectUrlSwapped(branch, componentData) ==
    IF branch = "main" THEN componentData.latestUrl ELSE componentData.mainUrl

\* branch === 'main' ? componentData.mainUrl : componentData.latestUrl
SelectUrl(branch, componentData) ==
    IF branch = "main" THEN componentData.mainUrl ELSE componentData.latestUrl

\* the try block up to the await: what it sends, and how it leaves
TryEntry(q, key, apps) ==
    LET init == initializeFirebaseAdmin(key, apps) IN
    IF init.threw
    THEN [kind |-> "throw", sent |-> <<>>, apps |-> init.apps, initError |-> TRUE]
    ELSE IF InvalidSlug(q)
    THEN [kind |-> "return", sent |-> <<Redirect(307, fallbackUrl)>>,
          apps |-> init.apps, initError |-> FALSE]
    ELSE IF InvalidBranch(q.slug[2])
    THEN [kind |-> "return", sent |-> <<Redirect(307, fallbackUrl)>>,
          apps |-> init.apps, initError |-> FALSE]
    ELSE [kind |-> "await", sent |-> <<>>, apps |-> init.apps, initError |-> FALSE]

\* variant of TryResume that answers a missing document with 404, as
\* api/r/[slug].js does
TryResumeNotFound404(q, snap) ==
    IF ~snap.exists
    THEN <<[status |-> 404, location |-> NoLocation, body |-> "Component not found."]>>
    ELSE LET redirectUrl == SelectUrl(q.slug[2], snap) IN
         IF Falsy(redirectUrl)
         THEN <<Redirect(307, fallbackUrl)>>
         ELSE <<Redirect(307, redirectUrl)>>

\* variant of TryResume whose fallback branches do not return, so that the
\* redirect of step 6 is sent as well
TryResumeNoReturn(q, snap) ==
    IF ~snap.exists
    THEN <<Redirect(307, fallbackUrl)>>
    ELSE LET redirectUrl == SelectUrl(q.slug[2], snap) IN
         IF Falsy(redirectUrl)
         THEN <<Redirect(307, fallbackUrl), Redirect(307, redirectUrl)>>
         ELSE <<Redirect(307, redirectUrl)>>

\* the try block after the await resolved with snapshot snap
TryResume(q, snap) ==
    IF ~snap.exists
    THEN <<Redirect(307, fallbackUrl)>>
    ELSE LET redirectUrl == SelectUrl(q.slug[2], snap) IN
         IF Falsy(redirectUrl)
         THEN <<Redirect(307, fallbackUrl)>>
         ELSE <<Redirect(307, redirectUrl)>>

\* variant of Catch that answers a thrown error with the fallback redirect
CatchRedirects(outcome) ==
    IF outcome.kind = "throw"
    THEN [outcome EXCEPT !.kind = "return",
                         !.sent = outcome.sent \o <<Redirect(307, fallbackUrl)>>]
    ELSE outcome

\* variant of Catch that lets the error through
CatchRethrows(outcome) == outcome

\* the catch block: whatever was thrown in the try block becomes a 500
Catch(outcome) ==
    IF outcome.kind = "throw"
    THEN [outcome EXCEPT !.kind = "return", !.sent = outcome.sent \o <<ServerError>>]
    ELSE outcome

\* docRef.get() on db.collection('components').doc(componentId)
Snapshot(store, componentId) ==
    IF componentId \in DOMAIN store THEN store[componentId] ELSE NoDoc

\* position after the handler left the try/catch
PcAfter(kind) ==
    CASE kind = "return" -> "returned"
      [] kind = "await"  -> "awaitGet"
      [] kind = "throw"  -> "threw"

----------------------------------------------------------------------------
(* Text *)

\* longest name that is enumerated
MaxNameLen == 3

\* the characters of the names
UpperLetters == {"C", "F", "N", "R", "S"}

LowerLetters == {"a", "c", "d", "e", "f", "g", "i", "l", "n", "r", "s", "t", "v"}

Digits == {"1"}

\* characters the regular expression \s matches
Whitespace == {" ", "\t"}

\* characters outside [A-Za-z0-9-] and \s
Symbols == {"!", "_"}

\* String.prototype.toLowerCase, on one character
ToLowerChar(c) ==
    CASE c = "C" -> "c"
      [] c = "F" -> "f"
      [] c = "N" -> "n"
      [] c = "R" -> "r"
      [] c = "S" -> "s"
      [] OTHER -> c

\* name.toLowerCase()
toLowerCase(str) == [k \in 1..Len(str) |-> ToLowerChar(str[k])]

\* the rest of str after its leading whitespace
RECURSIVE SkipWhitespace(_)
SkipWhitespace(str) ==
    IF str # <<>> /\ Head(str) \in Whitespace THEN SkipWhitespace(Tail(str)) ELSE str

\* .replace(/\s+/g, '-'): every run of whitespace becomes one hyphen
RECURSIVE ReplaceWhitespaceRuns(_)
ReplaceWhitespaceRuns(str) ==
    IF str = <<>> THEN <<>>
    ELSE IF Head(str) \in Whitespace
         THEN <<"-">> \o ReplaceWhitespaceRuns(SkipWhitespace(Tail(str)))
         ELSE <<Head(str)>> \o ReplaceWhitespaceRuns(Tail(str))

\* [a-z0-9-]
IsIdChar(c) == c \in LowerLetters \cup Digits \cup {"-"}

\* .replace(/[^a-z0-9-]/g, '')
StripOtherChars(str) == SelectSeq(str, IsIdChar)

\* variant of generateComponentId that strips before it replaces whitespace
generateComponentIdStripFirst(name) ==
    ReplaceWhitespaceRuns(StripOtherChars(toLowerCase(name)))

\* generateComponentId
generateComponentId(name) ==
    StripOtherChars(ReplaceWhitespaceRuns(toLowerCase(name)))

\* the reverse of a sequence
RECURSIVE Reverse(_)
Reverse(str) == IF str = <<>> THEN <<>> ELSE Reverse(Tail(str)) \o <<Head(str)>>

\* String.prototype.trim, on a sequence of characters
trim(str) == Reverse(SkipWhitespace(Reverse(SkipWhitespace(str))))

\* the string made of the characters
RECURSIVE Join(_)
Join(str) == IF str = <<>> THEN "" ELSE Head(str) \o Join(Tail(str))

\* the name of the example
RangeSliderFilter ==
    <<"R", "a", "n", "g", "e", " ", "S", "l", "i", "d", "e", "r", " ",
      "F", "i", "l", "t", "e", "r">>

\* characters of the enumerated names: one of each kind
NameChars == {"R", "a", "1", "-", " ", "\t", "!"}

\* all sequences over chars of length at most n
RECURSIVE SeqsUpTo(_, _)
SeqsUpTo(chars, n) ==
    IF n = 0 THEN {<<>>}
    ELSE LET shorter == SeqsUpTo(chars, n - 1) IN
         shorter \cup {Append(w, c) : w \in shorter, c \in chars}

\* the names given to generateComponentId
NameInputs == SeqsUpTo(NameChars, MaxNameLen) \cup {RangeSliderFilter}

\* no derivation has been made
IdIdle ==
    /\ idName = <<>>
    /\ idDerived = <<>>
    /\ idRederived = <<>>
    /\ idPc = "off"

----------------------------------------------------------------------------
(* Values of the management UI *)

\* the builds of the App component
Variants == {"local", "global", "peruser"}

\* browser tabs that run the App
Sessions == {"tabA", "tabB"}

FirstSession == "tabA"

\* authenticated principals (uid, or the email of the local build)
Users == {"alice", "bob"}

\* JS null
Null == "<null>"

\* names typed into the form
CardName == <<"C", "a", "r", "d">>

LowerCardName == <<"c", "a", "r", "d">>

NavName == <<"N", "a", "v">>

FormNames == {<<>>, <<" ">>, CardName, LowerCardName, NavName}

\* texts typed into the main URL field and the latest URL field of the form
MainUrls == {"", " ", "https://example.com/m"}

LatestUrls == {"", " ", "https://example.com/l"}

\* texts typed into the two URL fields of a row in edit mode (the fields are
\* empty while no row is in edit mode)
EditedUrls == {" ", "https://example.com/e"}

\* String.prototype.trim, on the URL texts
trimText(text) == IF text \in {"", " "} THEN "" ELSE text

\* !text.trim(), for a name and for a URL
BlankName(name) == trim(name) = <<>>

\* BlankUrl without the trim
BlankUrlOnlyEmpty(text) == text = ""

\* BlankUrl that lets every text through
BlankUrlNever(text) == FALSE

BlankUrl(text) == trimText(text) = ""

\* variant of NoUser that lets every caller through
NoUserNever(u) == FALSE

\* `!user`
NoUser(u) == u = Null

\* ids that handlers are called with, in the order a query returns them
IdOrder == <<"card", "nav">>

HandlerIds == {IdOrder[k] : k \in 1..Len(IdOrder)}

\* messages of setError
AllFieldsRequired == "All fields are required."

MustBeLoggedIn == "You must be logged in to add components."

NameExistsLocal == "A component with this name already exists. Please choose a unique name."

NameExistsGlobal == "A component with this name already exists."

FailedToSave == "Failed to save component."

FailedToUpdate == "Failed to update component."

FailedToDelete == "Failed to delete component."

\* what a handler call holds while it awaits its write: nothing
NoPayload == [uid |-> Null, name |-> "", mainUrl |-> "", latestUrl |-> ""]

\* no handler has been called in the session
NoCall ==
    [n |-> 0, handler |-> "none", phase |-> "none", alert |-> FALSE, blank |-> FALSE,
     id |-> Null, payload |-> NoPayload]

\* a handler call that is over: which handler, for which id, how it ended
\* (phase), whether it called alert(), whether a field it read was blank
EndedCall(handler, phase, alert, blank, id) ==
    [n |-> 0, handler |-> handler, phase |-> phase, alert |-> alert, blank |-> blank,
     id |-> id, payload |-> NoPayload]

\* a handler call that awaits its write
PendingCall(handler, id, uid, name, m, l) ==
    [n |-> 0, handler |-> handler, phase |-> "pending", alert |-> FALSE, blank |-> FALSE,
     id |-> id, payload |-> [uid |-> uid, name |-> name, mainUrl |-> m, latestUrl |-> l]]

\* handleCancelEditing's state: no row is in edit mode
NoEdit == [id |-> Null, mainUrl |-> "", latestUrl |-> ""]

\* an empty collection
EmptyStore == [id \in DocIds |-> NoDoc]

\* a record as the UI writes it
Record(uid, name, m, l) ==
    [exists |-> TRUE, uid |-> uid, name |-> name, mainUrl |-> m, latestUrl |-> l]

\* an element of the `components` array
Item(id, doc) ==
    [id |-> id, uid |-> doc.uid, name |-> doc.name, mainUrl |-> doc.mainUrl,
     latestUrl |-> doc.latestUrl]

\* doc(db, path, componentId) throws when componentId is the empty string
DocRefThrows(id) == id = ""

\* setDoc(docRef, data)
setDoc(store, id, data) ==
    [x \in DOMAIN store \cup {id} |-> IF x = id THEN data ELSE store[x]]

\* updateDoc that writes the fields one at a time and stops after the first
updateDocMainOnly(store, id, m, l) ==
    [store EXCEPT ![id].mainUrl = m]

\* updateDoc that replaces the document by the two fields
updateDocAsSet(store, id, m, l) ==
    [store EXCEPT ![id] = Record(Undefined, Undefined, m, l)]

\* updateDoc(docRef, {mainUrl, latestUrl}) on an existing document
updateDoc(store, id, m, l) ==
    [store EXCEPT ![id].mainUrl = m, ![id].latestUrl = l]

\* deleteDoc that empties the collection when the document is not there
deleteDocOrClear(store, id) ==
    [x \in DOMAIN store |-> IF x = id \/ ~store[id].exists THEN NoDoc ELSE store[x]]

\* deleteDoc(docRef)
deleteDoc(store, id) ==
    [x \in DOMAIN store |-> IF x = id THEN NoDoc ELSE store[x]]

\* the documents of a collection as onSnapshot hands them over
SnapshotItems(store) ==
    LET present == SelectSeq(IdOrder, LAMBDA id : id \in DOMAIN store /\ store[id].exists)
    IN [k \in 1..Len(present) |-> Item(present[k], store[present[k]])]

\* the query without its where clause
WhereUidAll(items, uid) == items

\* where("uid", "==", uid), on the documents of a snapshot
WhereUid(items, uid) == SelectSeq(items, LAMBDA c : c.uid = uid)

\* components.some(c => c.id === componentId)
SomeWithId(items, id) == \E k \in 1..Len(items) : items[k].id = id

\* components.filter(c => c.id !== componentId)
FilterOutId(items, id) == SelectSeq(items, LAMBDA c : c.id # id)

\* components.map(c => c.id === componentId ? {...c, mainUrl, latestUrl} : c)
MapUpdate(items, id, m, l) ==
    [k \in 1..Len(items) |->
        IF items[k].id = id
        THEN [items[k] EXCEPT !.mainUrl = m, !.latestUrl = l]
        ELSE items[k]]

\* the management UI is not running
UiIdle ==
    /\ variant = "none"
    /\ user = [s \in Sessions |-> Null]
    /\ lsUser = Null
    /\ list = [s \in Sessions |-> <<>>]
    /\ lsComponents = <<>>
    /\ userComponents = [u \in Users |-> EmptyStore]
    /\ call = [s \in Sessions |-> NoCall]
    /\ error = [s \in Sessions |-> Null]
    /\ edit = [s \in Sessions |-> NoEdit]

----------------------------------------------------------------------------
(* Initial state *)

\* no request has arrived
ResolverIdle ==
    /\ adminApps = 0
    /\ pc = [i \in Invocations |-> "idle"]
    /\ query = [i \in Invocations |-> NoSlugQuery]
    /\ initError = [i \in Invocations |-> FALSE]
    /\ lookup = [i \in Invocations |-> "none"]
    /\ docSnap = [i \in Invocations |-> NoDoc]
    /\ reads = [i \in Invocations |-> 0]
    /\ responses = [i \in Invocations |-> <<>>]

\* the resolver alone: any key, any content of the collection
Init ==
    /\ UiIdle
    /\ IdIdle
    /\ envKey \in EnvKeys
    /\ adminApps = 0
    /\ components \in [DocIds -> StoredDocs]
    /\ pc = [i \in Invocations |-> "idle"]
    /\ query = [i \in Invocations |-> NoSlugQuery]
    /\ initError = [i \in Invocations |-> FALSE]
    /\ lookup = [i \in Invocations |-> "none"]
    /\ docSnap = [i \in Invocations |-> NoDoc]
    /\ reads = [i \in Invocations |-> 0]
    /\ responses = [i \in Invocations |-> <<>>]

----------------------------------------------------------------------------
(* Actions *)

\* a request arrives: the handler runs from its entry to its first return,
\* or to `await docRef.get()`
Invoke(i, q) ==
    /\ pc[i] = "idle"
    /\ LET outcome == Catch(TryEntry(q, envKey, adminApps)) IN
       /\ query' = [query EXCEPT ![i] = q]
       /\ adminApps' = outcome.apps
       /\ initError' = [initError EXCEPT ![i] = outcome.initError]
       /\ responses' = [responses EXCEPT ![i] = @ \o outcome.sent]
       /\ pc' = [pc EXCEPT ![i] = PcAfter(outcome.kind)]
       /\ lookup' = [lookup EXCEPT ![i] = IF outcome.kind = "await" THEN "pending" ELSE @]
       /\ reads' = [reads EXCEPT ![i] = IF outcome.kind = "await" THEN @ + 1 ELSE @]
    /\ UNCHANGED <<envKey, components, docSnap>>
    /\ UNCHANGED <<uiVars, idVars>>

\* the store answers the read; the handler continues to its return
GetResolves(i) ==
    /\ pc[i] = "awaitGet"
    /\ lookup[i] = "pending"
    /\ LET snap == Snapshot(components, query[i].slug[1])
           outcome == Catch([kind |-> "return", sent |-> TryResume(query[i], snap)]) IN
       /\ docSnap' = [docSnap EXCEPT ![i] = snap]
       /\ responses' = [responses EXCEPT ![i] = @ \o outcome.sent]
       /\ pc' = [pc EXCEPT ![i] = PcAfter(outcome.kind)]
    /\ lookup' = [lookup EXCEPT ![i] = "resolved"]
    /\ UNCHANGED <<envKey, adminApps, components, query, initError, reads>>
    /\ UNCHANGED <<uiVars, idVars>>

\* the store fails the read: the await throws into the catch block
GetRejects(i) ==
    /\ pc[i] = "awaitGet"
    /\ lookup[i] = "pending"
    /\ LET outcome == Catch([kind |-> "throw", sent |-> <<>>]) IN
       /\ responses' = [responses EXCEPT ![i] = @ \o outcome.sent]
       /\ pc' = [pc EXCEPT ![i] = PcAfter(outcome.kind)]
    /\ lookup' = [lookup EXCEPT ![i] = "rejected"]
    /\ UNCHANGED <<envKey, adminApps, components, query, initError, docSnap, reads>>
    /\ UNCHANGED <<uiVars, idVars>>

\* the store hangs: the promise of docRef.get() will never settle
GetNeverSettles(i) ==
    /\ pc[i] = "awaitGet"
    /\ lookup[i] = "pending"
    /\ lookup' = [lookup EXCEPT ![i] = "never"]
    /\ UNCHANGED <<envKey, adminApps, components, pc, query, initError, docSnap,
                   reads, responses>>
    /\ UNCHANGED <<uiVars, idVars>>

Next ==
    \/ \E i \in Invocations, q \in Queries : Invoke(i, q)
    \/ \E i \in Invocations : GetResolves(i)
    \/ \E i \in Invocations : GetRejects(i)
    \/ \E i \in Invocations : GetNeverSettles(i)

Spec == Init /\ [][Next]_vars

\* every enabled step is eventually taken: requests arrive, and a store that
\* has not hung settles its reads
FairSpec == Spec /\ WF_vars(Next)

----------------------------------------------------------------------------
(* Identifier derivation on its own *)

InitId ==
    /\ UiIdle
    /\ ResolverIdle
    /\ envKey = "valid"
    /\ components = [id \in DocIds |-> NoDoc]
    /\ idName \in NameInputs
    /\ idDerived = <<>>
    /\ idRederived = <<>>
    /\ idPc = "start"

\* the id is derived from the name
Derive ==
    /\ idPc = "start"
    /\ idDerived' = generateComponentId(idName)
    /\ idPc' = "derived"
    /\ UNCHANGED <<idName, idRederived, components, resolverVars, uiVars>>

\* the derivation is applied to the derived id
Rederive ==
    /\ idPc = "derived"
    /\ idRederived' = generateComponentId(idDerived)
    /\ idPc' = "rederived"
    /\ UNCHANGED <<idName, idDerived, components, resolverVars, uiVars>>

NextId == Derive \/ Rederive

IdSpec == InitId /\ [][NextId]_vars

----------------------------------------------------------------------------
(* Vocabulary of the properties *)

\* the request of invocation i does not carry exactly two segments
Malformed(i) == ~query[i].present \/ Len(query[i].slug) # 2

\* the request of invocation i has two segments
TwoSegments(i) == query[i].present /\ Len(query[i].slug) = 2

\* the two segments of a two-segment request
ComponentIdOf(i) == query[i].slug[1]

BranchOf(i) == query[i].slug[2]

\* the branch segment names one of the two branches
ValidBranch(i) == BranchOf(i) \in {"main", "latest"}

\* a record with this id is in the collection
Present(id) == id \in DOMAIN components /\ components[id].exists

\* a field holds a non-empty URL
NonEmpty(v) == v # Undefined /\ v # ""

\* the three outcomes
FallbackOutcome == [status |-> 307, location |-> "/", body |-> ""]

ServerErrorOutcome ==
    [status |-> 500, location |-> NoLocation,
     body |-> "Internal Server Error. Please check the function logs for details."]

DestinationOutcome(url) == [status |-> 307, location |-> url, body |-> ""]

\* in this step the store answers the read of invocation i
ReadAnswered(i) == lookup[i] = "pending" /\ lookup'[i] = "resolved"

----------------------------------------------------------------------------
(* C1 *)

\* C1: when the store answers the read of a request [id, branch] and the
\* record id is in the store with non-empty mainUrl and latestUrl, the
\* response is 307 with Location mainUrl for branch 'main' and 307 with
\* Location latestUrl for branch 'latest'.
C1_DestinationRedirect ==
    [][\A i \in Invocations :
        (/\ ReadAnswered(i)
         /\ Present(ComponentIdOf(i))
         /\ NonEmpty(components[ComponentIdOf(i)].mainUrl)
         /\ NonEmpty(components[ComponentIdOf(i)].latestUrl))
        => /\ BranchOf(i) = "main" =>
                responses'[i] = <<DestinationOutcome(components[ComponentIdOf(i)].mainUrl)>>
           /\ BranchOf(i) = "latest" =>
                responses'[i] = <<DestinationOutcome(components[ComponentIdOf(i)].latestUrl)>>]_vars

\* a request for the latest branch of a record whose two URLs differ has been
\* answered with the record's latestUrl
C1_Witness ==
    \E i \in Invocations :
        /\ pc[i] = "returned"
        /\ lookup[i] = "resolved"
        /\ TwoSegments(i)
        /\ BranchOf(i) = "latest"
        /\ Present(ComponentIdOf(i))
        /\ components[ComponentIdOf(i)].mainUrl = "https://example.com/m"
        /\ components[ComponentIdOf(i)].latestUrl = "https://example.com/l"
        /\ responses[i] = <<DestinationOutcome("https://example.com/l")>>

----------------------------------------------------------------------------
(* C2 *)

\* C2: when the store answers the read of a request [id, branch] with branch
\* 'main' or 'latest' and no record id is in the store, the response is a 307
\* redirect to the fallback target '/', not an error status.
C2_UnknownIdFallback ==
    [][\A i \in Invocations :
        (ReadAnswered(i) /\ ~Present(ComponentIdOf(i)))
        => /\ ValidBranch(i)
           /\ responses'[i] = <<FallbackOutcome>>
           /\ pc'[i] = "returned"]_vars

\* a request for an id that is not in the store has been answered while a
\* record with another id is in the store
C2_Witness ==
    \E i \in Invocations :
        /\ pc[i] = "returned"
        /\ lookup[i] = "resolved"
        /\ ComponentIdOf(i) = "missing"
        /\ BranchOf(i) = "main"
        /\ Present("card")
        /\ responses[i] = <<FallbackOutcome>>

----------------------------------------------------------------------------
(* C3 *)

\* C3 as stated: every two-segment request whose branch is neither 'main'
\* nor 'latest' is answered with 307 to the fallback target and reads
\* nothing from the store.
C3_Original ==
    \A i \in Invocations :
        (pc[i] # "idle" /\ TwoSegments(i) /\ ~ValidBranch(i))
        => /\ responses[i] = <<FallbackOutcome>>
           /\ reads[i] = 0
           /\ lookup[i] = "none"

\* C3 (amended): a two-segment request whose branch is neither 'main' nor
\* 'latest' never reads the store, whether or not the componentId exists;
\* it is answered with 307 to the fallback target when
\* initializeFirebaseAdmin succeeded in the invocation, and with HTTP 500
\* when it threw.
C3_InvalidBranchFallback ==
    \A i \in Invocations :
        (pc[i] # "idle" /\ TwoSegments(i) /\ ~ValidBranch(i))
        => /\ pc[i] = "returned"
           /\ reads[i] = 0
           /\ lookup[i] = "none"
           /\ ~initError[i] => responses[i] = <<FallbackOutcome>>
           /\ initError[i] => responses[i] = <<ServerErrorOutcome>>

\* a request for another branch of a record that is in the store has been
\* answered with the fallback
C3_Witness ==
    \E i \in Invocations :
        /\ pc[i] = "returned"
        /\ query[i] = [present |-> TRUE, slug |-> <<"card", "other">>]
        /\ Present("card")
        /\ ~initError[i]
        /\ reads[i] = 0
        /\ responses[i] = <<FallbackOutcome>>

----------------------------------------------------------------------------
(* C4 *)

\* C4 as stated: every request whose slug is absent or does not have
\* exactly two segments is answered with 307 to '/' and attempts no
\* lookup, in every state of the store and of its configuration.
C4_Original ==
    \A i \in Invocations :
        (pc[i] # "idle" /\ Malformed(i))
        => /\ responses[i] = <<FallbackOutcome>>
           /\ reads[i] = 0
           /\ lookup[i] = "none"

\* C4 (amended): a request whose slug is absent or does not have exactly
\* two segments attempts no store lookup in any state of the store and of
\* its configuration; it is answered with 307 to '/' when
\* initializeFirebaseAdmin succeeded in the invocation, and with HTTP 500
\* when it threw (key missing or unusable).
C4_MalformedFallback ==
    \A i \in Invocations :
        (pc[i] # "idle" /\ Malformed(i))
        => /\ pc[i] = "returned"
           /\ reads[i] = 0
           /\ lookup[i] = "none"
           /\ ~initError[i] => responses[i] = <<FallbackOutcome>>
           /\ initError[i] => responses[i] = <<ServerErrorOutcome>>

\* a three-segment request has been answered with the fallback, and a
\* request without slug has been answered too
C4_Witness ==
    \E i, j \in Invocations :
        /\ pc[i] = "returned"
        /\ query[i] = [present |-> TRUE, slug |-> <<"card", "main", "extra">>]
        /\ ~initError[i]
        /\ reads[i] = 0
        /\ responses[i] = <<FallbackOutcome>>
        /\ pc[j] = "returned"
        /\ ~query[j].present
        /\ responses[j] = <<FallbackOutcome>>

----------------------------------------------------------------------------
(* C5 *)

\* C5: when initializeFirebaseAdmin throws in an invocation, or the store
\* rejects its read, the invocation's only response is HTTP 500 with the
\* generic message; it never sends a redirect.
C5_FailureIs500 ==
    \A i \in Invocations :
        (initError[i] \/ lookup[i] = "rejected")
        => /\ pc[i] = "returned"
           /\ responses[i] = <<ServerErrorOutcome>>
           /\ \A k \in 1..Len(responses[i]) :
                 responses[i][k].status # 307 /\ responses[i][k].location = NoLocation

\* one invocation ended in 500 because its read was rejected
C5_Witness ==
    \E i \in Invocations :
        /\ lookup[i] = "rejected"
        /\ ~initError[i]
        /\ reads[i] = 1
        /\ responses[i] = <<ServerErrorOutcome>>

----------------------------------------------------------------------------
(* C6 *)

\* the response r of invocation i is 307 to a URL stored in the record the
\* read delivered
IsDestinationOutcome(i, r) ==
    /\ lookup[i] = "resolved"
    /\ docSnap[i].exists
    /\ \E u \in {docSnap[i].mainUrl, docSnap[i].latestUrl} :
          NonEmpty(u) /\ r = DestinationOutcome(u)

\* C6: no exception leaves the handler, and an invocation that has ended
\* (after any request shape, and after the store found the record, did not
\* find it, or failed) has sent exactly one response, which is 307 to the
\* stored destination, 307 to the fallback, or HTTP 500.
C6_ThreeOutcomes ==
    \A i \in Invocations :
        /\ pc[i] # "threw"
        /\ (pc[i] = "returned" \/ lookup[i] \in {"resolved", "rejected"})
           => /\ pc[i] = "returned"
              /\ Len(responses[i]) = 1
              /\ \/ IsDestinationOutcome(i, responses[i][1])
                 \/ responses[i][1] = FallbackOutcome
                 \/ responses[i][1] = ServerErrorOutcome

\* one invocation has ended in 500 after its read was rejected and another
\* in a redirect to a stored destination
C6_Witness ==
    \E i, j \in Invocations :
        /\ pc[i] = "returned"
        /\ lookup[i] = "rejected"
        /\ responses[i] = <<ServerErrorOutcome>>
        /\ pc[j] = "returned"
        /\ IsDestinationOutcome(j, responses[j][1])

----------------------------------------------------------------------------
(* C7 *)

\* C7: if the store never answers the lookup of an invocation, the
\* invocation still eventually sends a response, and it is HTTP 500.
C7_TimeoutResponds ==
    \A i \in Invocations :
        (lookup[i] = "never") ~> (pc[i] = "returned" /\ responses[i] = <<ServerErrorOutcome>>)

----------------------------------------------------------------------------
(* C8 *)

\* the URL the record holds for the branch
StoredUrl(id, branch) ==
    IF branch = "main" THEN components[id].mainUrl ELSE components[id].latestUrl

\* C8: when the store answers the read of a request whose record exists but
\* holds an empty or absent URL for the requested branch, the response is
\* 307 to the fallback target: its Location is not empty and its status is
\* not an error.
C8_EmptyUrlFallback ==
    [][\A i \in Invocations :
        (/\ ReadAnswered(i)
         /\ Present(ComponentIdOf(i))
         /\ ~NonEmpty(StoredUrl(ComponentIdOf(i), BranchOf(i))))
        => /\ responses'[i] = <<FallbackOutcome>>
           /\ pc'[i] = "returned"]_vars

\* a request for the main branch of a record with an empty mainUrl and a
\* non-empty latestUrl has been answered with the fallback, and so has a
\* request for a record whose URL field is absent
C8_Witness ==
    \E i \in Invocations :
        /\ pc[i] = "returned"
        /\ lookup[i] = "resolved"
        /\ Present(ComponentIdOf(i))
        /\ BranchOf(i) = "main"
        /\ components[ComponentIdOf(i)].mainUrl \in {"", Undefined}
        /\ components[ComponentIdOf(i)].latestUrl = "https://example.com/l"
        /\ responses[i] = <<FallbackOutcome>>

----------------------------------------------------------------------------
(* C9 *)

\* invocation i has ended, with a healthy store, in one of the three
\* failures: malformed path, invalid branch, unknown componentId
FailedMalformed(i) == pc[i] = "returned" /\ ~initError[i] /\ Malformed(i)

FailedBranch(i) ==
    pc[i] = "returned" /\ ~initError[i] /\ TwoSegments(i) /\ ~ValidBranch(i)

FailedUnknownId(i) ==
    /\ pc[i] = "returned"
    /\ ~initError[i]
    /\ TwoSegments(i)
    /\ ValidBranch(i)
    /\ lookup[i] = "resolved"
    /\ ~docSnap[i].exists

\* C9: with a healthy store, any two requests that each fail by a malformed
\* path, by an unknown componentId with a valid branch, or by an invalid
\* branch receive equal responses (status, Location and body).
C9_FailuresIndistinguishable ==
    \A i, j \in Invocations :
        (/\ FailedMalformed(i) \/ FailedBranch(i) \/ FailedUnknownId(i)
         /\ FailedMalformed(j) \/ FailedBranch(j) \/ FailedUnknownId(j))
        => responses[i] = responses[j]

\* an unknown id with a valid branch and a known id with an invalid branch
\* have both been answered
C9_Witness ==
    \E i, j \in Invocations :
        /\ FailedUnknownId(i)
        /\ ComponentIdOf(i) = "missing"
        /\ FailedBranch(j)
        /\ ComponentIdOf(j) = "card"
        /\ Present("card")
        /\ responses[i] = <<FallbackOutcome>>

\* a malformed path and an unknown id with a valid branch have both been
\* answered
C9_WitnessMalformed ==
    \E i, j \in Invocations : FailedMalformed(i) /\ FailedUnknownId(j)

----------------------------------------------------------------------------
(* C10 *)

\* C10: under every interleaving of the invocations, an invocation reads the
\* store at most once and never sends more than one response; once it has
\* ended it has sent exactly one.
C10_OneReadOneResponse ==
    \A i \in Invocations :
        /\ reads[i] <= 1
        /\ Len(responses[i]) <= 1
        /\ pc[i] = "returned" => Len(responses[i]) = 1
        /\ pc[i] \in {"idle", "awaitGet"} => Len(responses[i]) = 0

\* the invocations overlap: all of them have their read pending at once
C10_Overlap ==
    \A i \in Invocations : lookup[i] = "pending"

\* all invocations have ended after one read and one response each
C10_Witness ==
    \A i \in Invocations :
        pc[i] = "returned" /\ reads[i] = 1 /\ Len(responses[i]) = 1

----------------------------------------------------------------------------
(* Management UI: local build (localStorage) *)

\* handler calls made in one session
MaxCalls == 3

\* a handler is called in session s: its record replaces the previous call's,
\* and n counts the calls
NewCall(s, record) == [call EXCEPT ![s] = [record EXCEPT !.n = call[s].n + 1]]

\* the session may call another handler
MayCall(s) == call[s].n < MaxCalls

\* what a session's step leaves alone outside the UI
UiFrame == UNCHANGED <<resolverVars, idVars, variant>>

\* setComponents(next) and the effect that mirrors it to localStorage
SetComponentsLocal(s, next) ==
    /\ list' = [list EXCEPT ![s] = next]
    /\ lsComponents' = next

\* handleSubmit of the local build
handleSubmitLocal(s, name, m, l) ==
    /\ variant = "local"
    /\ MayCall(s)
    /\ IF BlankName(name) \/ BlankUrl(m) \/ BlankUrl(l)
       THEN /\ error' = [error EXCEPT ![s] = AllFieldsRequired]
            /\ call' = NewCall(s, EndedCall("submit", "rejected", FALSE, TRUE, Null))
            /\ UNCHANGED <<list, lsComponents>>
       ELSE LET componentId == Join(generateComponentId(name)) IN
            IF SomeWithId(list[s], componentId)
            THEN /\ error' = [error EXCEPT ![s] = NameExistsLocal]
                 /\ call' = NewCall(s, EndedCall("submit", "rejected", FALSE, FALSE, componentId))
                 /\ UNCHANGED <<list, lsComponents>>
            ELSE /\ error' = [error EXCEPT ![s] = Null]
                 /\ SetComponentsLocal(s, Append(list[s],
                        [id |-> componentId, uid |-> Undefined, name |-> Join(name),
                         mainUrl |-> m, latestUrl |-> l]))
                 /\ call' = NewCall(s, EndedCall("submit", "done", FALSE, FALSE, componentId))
    /\ UNCHANGED <<components, userComponents, user, lsUser, edit>>
    /\ UiFrame

\* handleDelete of the local build
handleDeleteLocal(s, componentId) ==
    /\ variant = "local"
    /\ MayCall(s)
    /\ SetComponentsLocal(s, FilterOutId(list[s], componentId))
    /\ call' = NewCall(s, EndedCall("delete", "done", FALSE, FALSE, componentId))
    /\ UNCHANGED <<components, userComponents, user, lsUser, edit, error>>
    /\ UiFrame

\* handleUpdateComponent of the local build
handleUpdateComponentLocal(s, componentId) ==
    /\ variant = "local"
    /\ MayCall(s)
    /\ IF BlankUrl(edit[s].mainUrl) \/ BlankUrl(edit[s].latestUrl)
       THEN /\ call' = NewCall(s, EndedCall("update", "rejected", TRUE, TRUE, componentId))
            /\ UNCHANGED <<list, lsComponents, edit>>
       ELSE /\ SetComponentsLocal(s, MapUpdate(list[s], componentId,
                                               edit[s].mainUrl, edit[s].latestUrl))
            /\ edit' = [edit EXCEPT ![s] = NoEdit]
            /\ call' = NewCall(s, EndedCall("update", "done", FALSE, FALSE, componentId))
    /\ UNCHANGED <<components, userComponents, user, lsUser, error>>
    /\ UiFrame

----------------------------------------------------------------------------
(* Management UI: edit mode (the same in the three builds) *)

\* handleStartEditing(component), for the k-th row
handleStartEditing(s, k) ==
    /\ variant \in Variants
    /\ k \in 1..Len(list[s])
    /\ edit' = [edit EXCEPT ![s] = [id |-> list[s][k].id, mainUrl |-> list[s][k].mainUrl,
                                   latestUrl |-> list[s][k].latestUrl]]
    /\ UNCHANGED <<components, userComponents, lsComponents, user, lsUser, list, call, error>>
    /\ UiFrame

\* handleCancelEditing
handleCancelEditing(s) ==
    /\ variant \in Variants
    /\ edit[s] # NoEdit
    /\ edit' = [edit EXCEPT ![s] = NoEdit]
    /\ UNCHANGED <<components, userComponents, lsComponents, user, lsUser, list, call, error>>
    /\ UiFrame

\* onChange of the main URL field of the row in edit mode
setEditedMainUrl(s, text) ==
    /\ variant \in Variants
    /\ edit[s].id # Null
    /\ edit' = [edit EXCEPT ![s].mainUrl = text]
    /\ UNCHANGED <<components, userComponents, lsComponents, user, lsUser, list, call, error>>
    /\ UiFrame

\* onChange of the latest URL field of the row in edit mode
setEditedLatestUrl(s, text) ==
    /\ variant \in Variants
    /\ edit[s].id # Null
    /\ edit' = [edit EXCEPT ![s].latestUrl = text]
    /\ UNCHANGED <<components, userComponents, lsComponents, user, lsUser, list, call, error>>
    /\ UiFrame

----------------------------------------------------------------------------
(* Management UI: Firestore builds (global collection, per-user collection) *)

\* the components array after the listener has seen a document written
ListAfterSet(items, item) ==
    LET ids == SelectSeq(IdOrder, LAMBDA id : id = item.id \/ SomeWithId(items, id))
    IN [k \in 1..Len(ids) |->
            IF ids[k] = item.id
            THEN item
            ELSE FilterOutId(items, item.id)[CHOOSE j \in 1..Len(FilterOutId(items, item.id)) :
                                                FilterOutId(items, item.id)[j].id = ids[k]]]

\* handleSubmit of the global build, up to `await setDoc`
handleSubmitGlobal(s, name, m, l) ==
    /\ variant = "global"
    /\ MayCall(s)
    /\ call[s].phase # "pending"
    /\ IF BlankName(name) \/ BlankUrl(m) \/ BlankUrl(l) \/ user[s] = Null
       THEN /\ call' = NewCall(s, EndedCall("submit", "rejected", FALSE, BlankName(name) \/ BlankUrl(m) \/ BlankUrl(l), Null))
            /\ UNCHANGED error
       ELSE LET componentId == Join(generateComponentId(name)) IN
            IF SomeWithId(list[s], componentId)
            THEN /\ error' = [error EXCEPT ![s] = NameExistsGlobal]
                 /\ call' = NewCall(s, EndedCall("submit", "rejected", FALSE, FALSE, componentId))
            ELSE IF DocRefThrows(componentId)
            THEN /\ error' = [error EXCEPT ![s] = FailedToSave]
                 /\ call' = NewCall(s, EndedCall("submit", "failed", FALSE, FALSE, componentId))
            ELSE /\ error' = [error EXCEPT ![s] = Null]
                 /\ call' = NewCall(s, PendingCall("submit", componentId, user[s], Join(name), m, l))
    /\ UNCHANGED <<components, userComponents, lsComponents, user, lsUser, list, edit>>
    /\ UiFrame

\* handleSubmit of src/src/App.js, up to `await setDoc`
handleSubmitPerUser(s, name, m, l) ==
    /\ variant = "peruser"
    /\ MayCall(s)
    /\ call[s].phase # "pending"
    /\ IF BlankName(name) \/ BlankUrl(m) \/ BlankUrl(l)
       THEN /\ error' = [error EXCEPT ![s] = AllFieldsRequired]
            /\ call' = NewCall(s, EndedCall("submit", "rejected", FALSE, TRUE, Null))
       ELSE IF NoUser(user[s])
       THEN /\ error' = [error EXCEPT ![s] = MustBeLoggedIn]
            /\ call' = NewCall(s, EndedCall("submit", "rejected", FALSE, FALSE, Null))
       ELSE LET componentId == Join(generateComponentId(name)) IN
            IF DocRefThrows(componentId)
            THEN /\ error' = [error EXCEPT ![s] = FailedToSave]
                 /\ call' = NewCall(s, EndedCall("submit", "failed", FALSE, FALSE, componentId))
            ELSE /\ error' = [error EXCEPT ![s] = Null]
                 /\ call' = NewCall(s, PendingCall("submit", componentId, user[s], Join(name), m, l))
    /\ UNCHANGED <<components, userComponents, lsComponents, user, lsUser, list, edit>>
    /\ UiFrame

\* handleDelete of the Firestore builds, up to `await deleteDoc`
handleDeleteFirestore(s, componentId) ==
    /\ variant \in {"global", "peruser"}
    /\ MayCall(s)
    /\ call[s].phase # "pending"
    /\ IF variant = "peruser" /\ NoUser(user[s])
       THEN /\ call' = NewCall(s, EndedCall("delete", "rejected", FALSE, FALSE, componentId))
            /\ UNCHANGED error
       ELSE IF DocRefThrows(componentId)
       THEN /\ error' = [error EXCEPT ![s] = FailedToDelete]
            /\ call' = NewCall(s, EndedCall("delete", "failed", FALSE, FALSE, componentId))
       ELSE /\ call' = NewCall(s, PendingCall("delete", componentId, user[s], "", "", ""))
            /\ UNCHANGED error
    /\ UNCHANGED <<components, userComponents, lsComponents, user, lsUser, list, edit>>
    /\ UiFrame

\* handleUpdateComponent of the Firestore builds, up to `await updateDoc`
handleUpdateComponentFirestore(s, componentId) ==
    /\ variant \in {"global", "peruser"}
    /\ MayCall(s)
    /\ call[s].phase # "pending"
    /\ IF variant = "peruser" /\ NoUser(user[s])
       THEN /\ call' = NewCall(s, EndedCall("update", "rejected", FALSE, FALSE, componentId))
            /\ UNCHANGED error
       ELSE IF BlankUrl(edit[s].mainUrl) \/ BlankUrl(edit[s].latestUrl)
       THEN /\ call' = NewCall(s, EndedCall("update", "rejected", variant = "peruser", TRUE, componentId))
            /\ UNCHANGED error
       ELSE IF DocRefThrows(componentId)
       THEN /\ error' = [error EXCEPT ![s] = FailedToUpdate]
            /\ call' = NewCall(s, EndedCall("update", "failed", FALSE, FALSE, componentId))
       ELSE /\ call' = NewCall(s, PendingCall("update", componentId, user[s], "", edit[s].mainUrl, edit[s].latestUrl))
            /\ UNCHANGED error
    /\ UNCHANGED <<components, userComponents, lsComponents, user, lsUser, list, edit>>
    /\ UiFrame

\* the collection a pending call of session s writes to
StoreOf(s) ==
    IF variant = "global" THEN components ELSE userComponents[call[s].payload.uid]

\* that collection after the write
SetStore(s, next) ==
    IF variant = "global"
    THEN components' = next /\ UNCHANGED userComponents
    ELSE /\ userComponents' = [userComponents EXCEPT ![call[s].payload.uid] = next]
         /\ UNCHANGED components

\* the data object handleSubmit passes to setDoc
SubmitData(s) ==
    Record(IF variant = "global" THEN call[s].payload.uid ELSE Undefined,
           call[s].payload.name, call[s].payload.mainUrl, call[s].payload.latestUrl)

\* the session's onSnapshot listener is the one of the user who issued the write
ListenerSees(s) == user[s] # Null /\ user[s] = call[s].payload.uid

\* the call is over
Ended(s, phase) == [call EXCEPT ![s].phase = phase, ![s].payload = NoPayload]

\* the awaited write is applied and the handler resumes after its `await`
WriteSettles(s) ==
    /\ variant \in {"global", "peruser"}
    /\ call[s].phase = "pending"
    /\ LET id == call[s].id
           m == call[s].payload.mainUrl
           l == call[s].payload.latestUrl
       IN CASE call[s].handler = "submit" ->
                 /\ SetStore(s, setDoc(StoreOf(s), id, SubmitData(s)))
                 /\ list' = IF ListenerSees(s)
                            THEN [list EXCEPT ![s] = ListAfterSet(list[s], Item(id, SubmitData(s)))]
                            ELSE list
                 /\ call' = Ended(s, "done")
                 /\ UNCHANGED <<edit, error>>
            [] call[s].handler = "update" ->
                 IF id \in DOMAIN StoreOf(s) /\ StoreOf(s)[id].exists
                 THEN /\ SetStore(s, updateDoc(StoreOf(s), id, m, l))
                      /\ list' = IF ListenerSees(s)
                                 THEN [list EXCEPT ![s] = MapUpdate(list[s], id, m, l)]
                                 ELSE list
                      /\ edit' = [edit EXCEPT ![s] = NoEdit]
                      /\ call' = Ended(s, "done")
                      /\ UNCHANGED error
                 ELSE /\ error' = [error EXCEPT ![s] = FailedToUpdate]
                      /\ call' = Ended(s, "failed")
                      /\ UNCHANGED <<components, userComponents, list, edit>>
            [] call[s].handler = "delete" ->
                 /\ SetStore(s, deleteDoc(StoreOf(s), id))
                 /\ list' = IF ListenerSees(s)
                            THEN [list EXCEPT ![s] = FilterOutId(list[s], id)]
                            ELSE list
                 /\ call' = Ended(s, "done")
                 /\ UNCHANGED <<edit, error>>
    /\ UNCHANGED <<lsComponents, user, lsUser>>
    /\ UiFrame

\* the awaited write is rejected and the handler resumes in its catch block
WriteRejects(s) ==
    /\ variant \in {"global", "peruser"}
    /\ call[s].phase = "pending"
    /\ error' = [error EXCEPT ![s] =
                    CASE call[s].handler = "submit" -> FailedToSave
                      [] call[s].handler = "update" -> FailedToUpdate
                      [] call[s].handler = "delete" -> FailedToDelete]
    /\ call' = Ended(s, "failed")
    /\ UNCHANGED <<components, userComponents, lsComponents, user, lsUser, list, edit>>
    /\ UiFrame

\* what the session's query returns
QueryResult(s) ==
    IF variant = "global"
    THEN WhereUid(SnapshotItems(components), user[s])
    ELSE SnapshotItems(userComponents[user[s]])

\* the onSnapshot callback runs with the current result of the query
SnapshotDelivered(s) ==
    /\ variant \in {"global", "peruser"}
    /\ user[s] # Null
    /\ list[s] # QueryResult(s)
    /\ list' = [list EXCEPT ![s] = QueryResult(s)]
    /\ UNCHANGED <<components, userComponents, lsComponents, user, lsUser, call, error, edit>>
    /\ UiFrame

\* the onAuthStateChanged callback runs with u, and the data effect after it
AuthStateChanged(s, u) ==
    /\ variant \in {"global", "peruser"}
    /\ u # user[s]
    /\ user' = [user EXCEPT ![s] = u]
    /\ list' = IF u = Null THEN [list EXCEPT ![s] = <<>>] ELSE list
    /\ UNCHANGED <<components, userComponents, lsComponents, lsUser, call, error, edit>>
    /\ UiFrame

----------------------------------------------------------------------------
(* Management UI: one tab, one principal *)

Principal == "alice"

\* a collection nobody has written to
FreshStore == [id \in HandlerIds |-> NoDoc]

\* the App has mounted in a build; the local build finds its user in
\* localStorage, the Firestore builds wait for onAuthStateChanged
InitUI ==
    /\ ResolverIdle
    /\ IdIdle
    /\ envKey = "valid"
    /\ variant \in Variants
    /\ components = FreshStore
    /\ userComponents = [u \in Users |-> FreshStore]
    /\ lsComponents = <<>>
    /\ lsUser = IF variant = "local" THEN Principal ELSE Null
    /\ user = [s \in Sessions |-> IF variant = "local" THEN Principal ELSE Null]
    /\ list = [s \in Sessions |-> <<>>]
    /\ call = [s \in Sessions |-> NoCall]
    /\ error = [s \in Sessions |-> Null]
    /\ edit = [s \in Sessions |-> NoEdit]

NextUI ==
    \/ \E name \in FormNames, m \in MainUrls, l \in LatestUrls :
          handleSubmitLocal(FirstSession, name, m, l)
    \/ \E id \in HandlerIds : handleDeleteLocal(FirstSession, id)
    \/ \E id \in HandlerIds : handleUpdateComponentLocal(FirstSession, id)
    \/ \E k \in 1..Len(IdOrder) : handleStartEditing(FirstSession, k)
    \/ handleCancelEditing(FirstSession)
    \/ \E text \in EditedUrls : setEditedMainUrl(FirstSession, text)
    \/ \E text \in EditedUrls : setEditedLatestUrl(FirstSession, text)
    \/ \E name \in FormNames, m \in MainUrls, l \in LatestUrls :
          handleSubmitGlobal(FirstSession, name, m, l)
    \/ \E name \in FormNames, m \in MainUrls, l \in LatestUrls :
          handleSubmitPerUser(FirstSession, name, m, l)
    \/ \E id \in HandlerIds : handleDeleteFirestore(FirstSession, id)
    \/ \E id \in HandlerIds : handleUpdateComponentFirestore(FirstSession, id)
    \/ WriteSettles(FirstSession)
    \/ WriteRejects(FirstSession)
    \/ SnapshotDelivered(FirstSession)
    \/ \E u \in {Null, Principal} : AuthStateChanged(FirstSession, u)

UISpec == InitUI /\ [][NextUI]_vars

----------------------------------------------------------------------------
(* The UI of src/src/App.js and the resolver on one Firebase project *)

\* the two redirect links the list shows for each of its rows, as the
\* req.query the resolver gets when one is followed
LinkQueries(s) ==
    {[present |-> TRUE, slug |-> <<list[s][k].id, branch>>] :
        k \in 1..Len(list[s]), branch \in {"main", "latest"}}

\* the links the list can show
Links ==
    {[present |-> TRUE, slug |-> <<id, branch>>] :
        id \in HandlerIds, branch \in {"main", "latest"}}

\* a link that the list of session s shows is followed: the request reaches
\* the resolver as invocation i
FollowLink(i, s, q) ==
    /\ q \in LinkQueries(s)
    /\ Invoke(i, q)

InitE2E ==
    /\ InitUI
    /\ variant = "peruser"

NextE2E ==
    \/ \E u \in {Null, Principal} : AuthStateChanged(FirstSession, u)
    \/ \E name \in FormNames, m \in MainUrls, l \in LatestUrls :
          handleSubmitPerUser(FirstSession, name, m, l)
    \/ WriteSettles(FirstSession)
    \/ WriteRejects(FirstSession)
    \/ SnapshotDelivered(FirstSession)
    \/ \E i \in Invocations, q \in Links : FollowLink(i, FirstSession, q)
    \/ \E i \in Invocations : GetResolves(i)
    \/ \E i \in Invocations : GetRejects(i)
    \/ \E i \in Invocations : GetNeverSettles(i)

E2ESpec == InitE2E /\ [][NextE2E]_vars

----------------------------------------------------------------------------
(* C11 *)

\* two ended invocations that carried the same request and got the same
\* answer from the store have sent the same responses
SameInSameOut ==
    \A i, j \in Invocations :
        (/\ pc[i] = "returned"
         /\ pc[j] = "returned"
         /\ query[i] = query[j]
         /\ lookup[i] = lookup[j]
         /\ docSnap[i] = docSnap[j])
        => responses[i] = responses[j]

\* C11: no step of the resolver changes a store (the root collection, the
\* per-user collections, localStorage), and the response to a request is a
\* function of the request and of what the store answered: an earlier
\* invocation does not change the response of a later one.
C11_ResolverReadsOnly ==
    /\ []SameInSameOut
    /\ [][/\ components' = components
          /\ userComponents' = userComponents
          /\ lsComponents' = lsComponents]_vars

\* the second of two equal requests was served by the app the first one
\* initialised, and both were redirected to the stored destination
C11_Witness ==
    \E i, j \in Invocations :
        /\ i # j
        /\ pc[i] = "returned"
        /\ pc[j] = "returned"
        /\ adminApps = 1
        /\ query[i] = [present |-> TRUE, slug |-> <<"card", "main">>]
        /\ query[j] = query[i]
        /\ lookup[i] = "resolved"
        /\ lookup[j] = "resolved"
        /\ responses[i] = <<DestinationOutcome("https://example.com/m")>>
        /\ responses[j] = responses[i]

----------------------------------------------------------------------------
(* C12 *)

\* C12: deriving an id from an already derived id returns it unchanged, and
\* the name 'Range Slider Filter' yields 'range-slider-filter'.  (That the
\* same name always yields the same id is what being a function means.)
C12_DerivationIdempotent ==
    /\ idPc = "rederived" => idRederived = idDerived
    /\ (idPc \in {"derived", "rederived"} /\ idName = RangeSliderFilter)
       => Join(idDerived) = "range-slider-filter"

\* the id of the example has been derived twice
C12_Witness ==
    /\ idPc = "rederived"
    /\ idName = RangeSliderFilter
    /\ Join(idDerived) = "range-slider-filter"
    /\ Join(idRederived) = "range-slider-filter"

\* a name with a run of whitespace and a stripped character has been derived
C12_WitnessRun ==
    /\ idPc = "rederived"
    /\ idName = <<" ", "\t", "!">>
    /\ idDerived = <<"-">>

----------------------------------------------------------------------------
(* Claim vocabulary of the management UI *)

\* the collection that holds the records of owner u in the running build
ScopeOf(u) ==
    IF variant = "peruser" THEN userComponents[u] ELSE components

\* the record stored under id in a collection, NoDoc when there is none
StoredRecord(store, id) ==
    IF id \in DOMAIN store THEN store[id] ELSE NoDoc

\* session s called handler h in this step
Called(s, h) == call'[s].n # call[s].n /\ call'[s].handler = h

\* the call of handler h that session s was waiting for ends in this step
Returns(s, h) ==
    call[s].handler = h /\ call[s].phase = "pending" /\ call'[s].phase # "pending"

\* the saved name and URLs of a record
NameAndUrls(doc) == <<doc.name, doc.mainUrl, doc.latestUrl>>

\* the three stores
Stores == <<components, userComponents, lsComponents>>

\* the array kept in localStorage, read as a collection
AsCollection(items) ==
    [id \in HandlerIds |->
        IF \E k \in 1..Len(items) : items[k].id = id
        THEN LET c == items[CHOOSE k \in 1..Len(items) : items[k].id = id]
             IN [exists |-> TRUE, uid |-> c.uid, name |-> c.name,
                 mainUrl |-> c.mainUrl, latestUrl |-> c.latestUrl]
        ELSE NoDoc]

\* the records of owner u in the running build
RecordsOf(u) ==
    IF variant = "local" THEN AsCollection(lsComponents) ELSE ScopeOf(u)

\* the call of session s, made or ending in this step, addresses the
\* collection that holds the records of owner u
Addresses(s, u) ==
    CASE variant = "local" -> u = user[s]
      [] variant = "global" -> TRUE
      [] OTHER -> u = call[s].payload.uid

\* the store carries out, in this step, the write of a call to handler h
Applied(s, h) ==
    /\ call'[s].handler = h
    /\ call'[s].phase = "done"
    /\ IF variant = "local" THEN Called(s, h) ELSE Returns(s, h)

\* a text that is empty or only whitespace
IsBlank(text) == text \in {"", " "}

\* a URL field that is missing or empty
EmptyUrl(url) == url \in {"", Undefined}

\* every record of a collection has both URLs
AllHaveUrls(store) ==
    \A id \in DOMAIN store :
        store[id].exists => ~EmptyUrl(store[id].mainUrl) /\ ~EmptyUrl(store[id].latestUrl)

----------------------------------------------------------------------------
(* C13 *)

\* C13: in the UI of src/src/App.js, a submit whose derived id is the id of a
\* record that exists in the owner's collection fails, and the record keeps
\* its name, mainUrl and latestUrl
C13_DuplicateSubmitFails ==
    [][\A s \in Sessions, u \in Users :
          (/\ variant = "peruser"
           /\ Returns(s, "submit")
           /\ call[s].payload.uid = u
           /\ StoredRecord(userComponents[u], call[s].id).exists)
          => /\ call'[s].phase = "failed"
             /\ NameAndUrls(StoredRecord(userComponents'[u], call[s].id))
                  = NameAndUrls(StoredRecord(userComponents[u], call[s].id))]_vars

----------------------------------------------------------------------------
(* C14 *)

\* C14: in every build, an update called while the edited mainUrl or the
\* edited latestUrl is empty or blank is rejected and writes nothing
C14_BlankUpdateRejected ==
    [][\A s \in Sessions :
          (Called(s, "update") /\ (IsBlank(edit[s].mainUrl) \/ IsBlank(edit[s].latestUrl)))
          => /\ call'[s].phase = "rejected"
             /\ Stores' = Stores]_vars

\* an update with a blank field was rejected while its record is stored
C14_Witness ==
    \E s \in Sessions :
        /\ variant = "peruser"
        /\ user[s] # Null
        /\ call[s].handler = "update"
        /\ call[s].phase = "rejected"
        /\ edit[s].id = call[s].id
        /\ edit[s].mainUrl = " "
        /\ RecordsOf(user[s])[call[s].id].exists

\* the same in the build with the global collection
C14_WitnessGlobal ==
    \E s \in Sessions :
        /\ variant = "global"
        /\ user[s] # Null
        /\ call[s].handler = "update"
        /\ call[s].phase = "rejected"
        /\ edit[s].id = call[s].id
        /\ edit[s].latestUrl = " "
        /\ RecordsOf(user[s])[call[s].id].exists

\* the same in the local build
C14_WitnessLocal ==
    \E s \in Sessions :
        /\ variant = "local"
        /\ call[s].handler = "update"
        /\ call[s].phase = "rejected"
        /\ edit[s] = NoEdit
        /\ RecordsOf(user[s])[call[s].id].exists

----------------------------------------------------------------------------
(* C15 *)

\* C15: a delete that the store carries out leaves no record under the id
\* and changes no other record; when there was no record under the id the
\* stores are unchanged and no error is reported (so a second delete of the
\* same id changes nothing)
C15_DeleteIdempotent ==
    [][\A s \in Sessions, u \in Users :
          (Applied(s, "delete") /\ Addresses(s, u))
          => /\ ~(RecordsOf(u)')[call'[s].id].exists
             /\ \A id \in HandlerIds \ {call'[s].id} : (RecordsOf(u)')[id] = RecordsOf(u)[id]
             /\ ~RecordsOf(u)[call'[s].id].exists
                   => Stores' = Stores /\ error' = error]_vars

\* the first call in a session deleted an id, hence one that is not stored
C15_Witness ==
    \E s \in Sessions :
        /\ call[s].n = 1
        /\ call[s].handler = "delete"
        /\ call[s].phase = "done"
        /\ error[s] = Null

\* a record was created and then deleted twice
C15_WitnessTwice ==
    \E s \in Sessions :
        /\ call[s].n = 3
        /\ call[s].handler = "delete"
        /\ call[s].phase = "done"
        /\ \A id \in HandlerIds : ~RecordsOf(Principal)[id].exists
        /\ list[s] = <<>>
        /\ user[s] # Null

----------------------------------------------------------------------------
(* C16 *)

\* C16: whatever handlers have run, every stored record has a mainUrl and a
\* latestUrl that are not empty
C16_NoEmptyUrlStored ==
    /\ AllHaveUrls(components)
    /\ \A u \in Users : AllHaveUrls(userComponents[u])
    /\ AllHaveUrls(AsCollection(lsComponents))

\* a record has been created and then updated
C16_Witness ==
    \E u \in Users, id \in HandlerIds :
        /\ RecordsOf(u)[id].exists
        /\ RecordsOf(u)[id].mainUrl = "https://example.com/e"
        /\ RecordsOf(u)[id].latestUrl = "https://example.com/l"

----------------------------------------------------------------------------
(* C17 *)

\* C17: an update that the store carries out changes nothing but the mainUrl
\* and latestUrl of the record it addresses
C17_UpdateChangesOnlyUrls ==
    [][\A s \in Sessions, u \in Users :
          (Applied(s, "update") /\ Addresses(s, u))
          => \A id \in HandlerIds :
                IF id = call'[s].id
                THEN /\ (RecordsOf(u)')[id].exists = RecordsOf(u)[id].exists
                     /\ (RecordsOf(u)')[id].name = RecordsOf(u)[id].name
                     /\ (RecordsOf(u)')[id].uid = RecordsOf(u)[id].uid
                ELSE (RecordsOf(u)')[id] = RecordsOf(u)[id]]_vars

\* a record was updated while another record is stored
C17_Witness ==
    \E s \in Sessions :
        /\ call[s].handler = "update"
        /\ call[s].phase = "done"
        /\ user[s] # Null
        /\ \A id \in HandlerIds : RecordsOf(user[s])[id].exists
        /\ RecordsOf(user[s])[call[s].id].mainUrl = "https://example.com/e"

----------------------------------------------------------------------------
(* C18 *)

\* session s makes, in this step, an update that passes the checks of the
\* handler
UpdateIssued(s) ==
    /\ Called(s, "update")
    /\ ~IsBlank(edit[s].mainUrl)
    /\ ~IsBlank(edit[s].latestUrl)
    /\ variant = "peruser" => user[s] # Null

\* the store handles, in this step, an update of session s: at once in the
\* local build, when the awaited write returns in the Firestore builds
UpdateHandled(s) ==
    IF variant = "local" THEN UpdateIssued(s) ELSE Returns(s, "update")

\* C18: an update of an id under which nothing is stored ends as a failure
\* that the caller is told of, and stores no record under the id
C18_UpdateOfAbsentFails ==
    [][\A s \in Sessions, u \in Users :
          (/\ UpdateHandled(s)
           /\ Addresses(s, u)
           /\ ~RecordsOf(u)[call'[s].id].exists)
          => /\ call'[s].phase = "failed"
             /\ error'[s] = FailedToUpdate
             /\ ~(RecordsOf(u)')[call'[s].id].exists]_vars

----------------------------------------------------------------------------
(* C19 *)

\* C19: in every build, a submit with an empty or blank name, mainUrl or
\* latestUrl is rejected, an error message is shown, and no store changes
C19_BlankSubmitShowsError ==
    [][\A s \in Sessions :
          (Called(s, "submit") /\ call'[s].blank)
          => /\ call'[s].phase = "rejected"
             /\ error'[s] = AllFieldsRequired
             /\ Stores' = Stores]_vars

----------------------------------------------------------------------------
(* C20 *)

\* C20: when the store answers the resolver's read for a link [id, branch]
\* of a record that the UI of src/src/App.js has created, the response is
\* 307 to the record's mainUrl for 'main' and to its latestUrl for 'latest'
C20_CreatedRecordResolves ==
    [][\A i \in Invocations, u \in Users :
          (/\ variant = "peruser"
           /\ ReadAnswered(i)
           /\ TwoSegments(i)
           /\ StoredRecord(userComponents[u], ComponentIdOf(i)).exists)
          => /\ BranchOf(i) = "main" =>
                  responses'[i] = <<DestinationOutcome(
                      StoredRecord(userComponents[u], ComponentIdOf(i)).mainUrl)>>
             /\ BranchOf(i) = "latest" =>
                  responses'[i] = <<DestinationOutcome(
                      StoredRecord(userComponents[u], ComponentIdOf(i)).latestUrl)>>]_vars

----------------------------------------------------------------------------
(* Firestore builds: two tabs, two users *)

\* the LoginScreen, shown while user is null, signs a user in
SignIn(s, u) ==
    /\ user[s] = Null
    /\ AuthStateChanged(s, u)

\* the Sign Out button, shown while a user is signed in
SignOut(s) ==
    /\ user[s] # Null
    /\ AuthStateChanged(s, Null)

\* the main URL each user types, so that a record tells who created it
OwnMainUrl(u) ==
    IF u = "bob" THEN "https://example.com/e" ELSE "https://example.com/m"

\* names typed into the form by the users
UsersNames == {CardName, NavName}

\* the tabs together may call another handler
MayCallAny == call["tabA"].n + call["tabB"].n < MaxCalls

\* a user fills the form of the global build and submits it
SubmitOwnGlobal(s, name) ==
    /\ MayCallAny
    /\ handleSubmitGlobal(s, name, OwnMainUrl(user[s]), "https://example.com/l")

\* a user fills the form of src/src/App.js and submits it
SubmitOwnPerUser(s, name) ==
    /\ MayCallAny
    /\ handleSubmitPerUser(s, name, OwnMainUrl(user[s]), "https://example.com/l")

\* handleDelete is called in a tab
DeleteInTab(s, id) ==
    /\ MayCallAny
    /\ handleDeleteFirestore(s, id)

InitUsers ==
    /\ InitUI
    /\ variant \in {"global", "peruser"}

NextUsers ==
    \E s \in Sessions :
        \/ \E u \in Users : SignIn(s, u)
        \/ SignOut(s)
        \/ \E name \in UsersNames : SubmitOwnGlobal(s, name)
        \/ \E name \in UsersNames : SubmitOwnPerUser(s, name)
        \/ \E id \in HandlerIds : DeleteInTab(s, id)
        \/ WriteSettles(s)
        \/ SnapshotDelivered(s)

UsersSpec == InitUsers /\ [][NextUsers]_vars

----------------------------------------------------------------------------
(* C21 *)

\* the ids of the records that owner u has in the store
OwnedIds(u) ==
    IF variant = "global"
    THEN {id \in DOMAIN components : components[id].exists /\ components[id].uid = u}
    ELSE {id \in DOMAIN userComponents[u] : userComponents[u][id].exists}

\* a row of the list shows a record of owner u
ShowsRecordOf(c, u) ==
    /\ c.mainUrl = (IF u = "bob" THEN "https://example.com/e" ELSE "https://example.com/m")
    /\ variant = "global" => c.uid = u

\* every row of each list shows a record of the user signed in there, and
\* the list is empty where nobody is signed in
ListsShowOwnRecords ==
    \A s \in Sessions :
        /\ user[s] = Null => list[s] = <<>>
        /\ \A k \in 1..Len(list[s]) : ShowsRecordOf(list[s][k], user[s])

\* in this step a snapshot reaches the list of session s
SnapshotReaches(s) ==
    list'[s] # list[s] /\ call' = call /\ user' = user

\* C21: with several users signing in and out and writing records, a list
\* shows only records of the user signed in there and is empty where nobody
\* is signed in; a snapshot that is delivered brings all of that user's
\* records
C21_ListIsOwnersRecords ==
    /\ []ListsShowOwnRecords
    /\ [][\A s \in Sessions :
             SnapshotReaches(s)
             => {list'[s][k].id : k \in 1..Len(list'[s])} = OwnedIds(user[s])]_vars

\* two users are signed in, each sees a record, and the second tab got its
\* list from a snapshot
C21_Witness ==
    /\ user["tabA"] = "alice"
    /\ user["tabB"] = "bob"
    /\ call["tabB"].n = 0
    /\ list["tabA"] # <<>>
    /\ list["tabB"] # <<>>
    /\ OwnedIds("alice") # {}
    /\ OwnedIds("bob") # {}

----------------------------------------------------------------------------
(* Firestore builds: one user edits one record in two tabs *)

\* the record both tabs show
CardRecord ==
    Record(IF variant = "global" THEN Principal ELSE Undefined, "Card",
           "https://example.com/m", "https://example.com/l")

\* the URL typed into the edit fields of each tab
EditedIn(s) ==
    IF s = "tabA" THEN "https://example.com/e" ELSE "https://example.com/f"

\* the user is signed in in both tabs, has created 'Card', and both tabs
\* have received the snapshot that shows it
InitEditors ==
    /\ ResolverIdle
    /\ IdIdle
    /\ envKey = "valid"
    /\ variant \in {"global", "peruser"}
    /\ components = IF variant = "global"
                    THEN [FreshStore EXCEPT !["card"] = CardRecord]
                    ELSE FreshStore
    /\ userComponents = [u \in Users |->
                            IF variant = "peruser" /\ u = Principal
                            THEN [FreshStore EXCEPT !["card"] = CardRecord]
                            ELSE FreshStore]
    /\ lsComponents = <<>>
    /\ lsUser = Null
    /\ user = [s \in Sessions |-> Principal]
    /\ list = [s \in Sessions |-> <<Item("card", CardRecord)>>]
    /\ call = [s \in Sessions |-> NoCall]
    /\ error = [s \in Sessions |-> Null]
    /\ edit = [s \in Sessions |-> NoEdit]

NextEditors ==
    \E s \in Sessions :
        \/ handleStartEditing(s, 1)
        \/ setEditedMainUrl(s, EditedIn(s))
        \/ setEditedLatestUrl(s, EditedIn(s))
        \/ handleUpdateComponentFirestore(s, "card")
        \/ WriteSettles(s)
        \/ SnapshotDelivered(s)

EditorsSpec == InitEditors /\ [][NextEditors]_vars

----------------------------------------------------------------------------
(* C22 *)

\* C22: whenever the store handles an update of a record that two tabs of
\* its owner are updating, the update is accepted and the record then holds
\* the mainUrl and the latestUrl of that update, both of them
C22_LastUpdateWins ==
    [][\A s \in Sessions, u \in Users :
          (Returns(s, "update") /\ Addresses(s, u) /\ u = call[s].payload.uid)
          => /\ call'[s].phase = "done"
             /\ (RecordsOf(u)')[call[s].id].mainUrl = call[s].payload.mainUrl
             /\ (RecordsOf(u)')[call[s].id].latestUrl = call[s].payload.latestUrl]_vars

\* the update of one tab has been applied while the other tab, whose list
\* still shows the record as it was created, waits for its own update of
\* both fields
C22_Witness ==
    /\ call["tabA"].handler = "update"
    /\ call["tabA"].phase = "done"
    /\ call["tabB"].handler = "update"
    /\ call["tabB"].phase = "pending"
    /\ call["tabB"].payload.mainUrl = "https://example.com/f"
    /\ call["tabB"].payload.latestUrl = "https://example.com/f"
    /\ list["tabB"][1].mainUrl = "https://example.com/m"
    /\ RecordsOf(Principal)["card"].mainUrl = "https://example.com/e"
    /\ RecordsOf(Principal)["card"].latestUrl = "https://example.com/e"

\* both updates have been applied, the one of the second tab last
C22_WitnessBoth ==
    /\ call["tabA"].handler = "update"
    /\ call["tabA"].phase = "done"
    /\ call["tabB"].handler = "update"
    /\ call["tabB"].phase = "done"
    /\ call["tabA"].n = 1
    /\ call["tabB"].n = 1
    /\ list["tabA"][1].mainUrl = "https://example.com/e"
    /\ list["tabA"][1].latestUrl = "https://example.com/e"
    /\ RecordsOf(Principal)["card"].mainUrl = "https://example.com/f"
    /\ RecordsOf(Principal)["card"].latestUrl = "https://example.com/f"

----------------------------------------------------------------------------
(* Local build: two tabs on one localStorage *)

\* the page is loaded or refreshed in a tab: App mounts with the user and
\* the components that getInitialState reads from localStorage, and the
\* effects write the same values back
Mount(s) ==
    /\ variant = "local"
    /\ user' = [user EXCEPT ![s] = lsUser]
    /\ list' = [list EXCEPT ![s] = lsComponents]
    /\ edit' = [edit EXCEPT ![s] = NoEdit]
    /\ error' = [error EXCEPT ![s] = Null]
    /\ UNCHANGED <<components, userComponents, lsComponents, lsUser, call>>
    /\ UiFrame

\* a name of one character that is no letter, digit or whitespace
BangName == <<"!">>

\* names typed into the form of the local build
LocalNames == {CardName, NavName, BangName}

\* the form of the local build is filled and submitted in a tab
SubmitInLocalTab(s, name) ==
    /\ MayCallAny
    /\ handleSubmitLocal(s, name, "https://example.com/m", "https://example.com/l")

\* handleDelete of the local build is called in a tab
DeleteInLocalTab(s, id) ==
    /\ MayCallAny
    /\ handleDeleteLocal(s, id)

\* handleUpdateComponent of the local build is called in a tab
UpdateInLocalTab(s, id) ==
    /\ MayCallAny
    /\ handleUpdateComponentLocal(s, id)

\* both tabs have loaded the page while nothing was stored
InitTabs ==
    /\ InitUI
    /\ variant = "local"

NextTabs ==
    \E s \in Sessions :
        \/ Mount(s)
        \/ \E name \in LocalNames : SubmitInLocalTab(s, name)
        \/ \E id \in HandlerIds : DeleteInLocalTab(s, id)
        \/ \E k \in 1..Len(IdOrder) : handleStartEditing(s, k)
        \/ setEditedMainUrl(s, EditedIn(s))
        \/ \E id \in HandlerIds : UpdateInLocalTab(s, id)

TabsSpec == InitTabs /\ [][NextTabs]_vars

----------------------------------------------------------------------------
(* C23 *)

\* a tab of the local build creates, updates or deletes in this step
LocalWrite(s) ==
    /\ variant = "local"
    /\ call'[s].n # call[s].n
    /\ call'[s].handler \in {"submit", "update", "delete"}
    /\ call'[s].phase = "done"

\* C23: in the local build with two tabs on one localStorage, a create,
\* update or delete of a record in one tab leaves every other stored record
\* as it was
C23_OtherRecordsUntouched ==
    [][\A s \in Sessions :
          LocalWrite(s)
          => \A id \in HandlerIds \ {call'[s].id} :
                AsCollection(lsComponents')[id] = AsCollection(lsComponents)[id]]_vars

----------------------------------------------------------------------------
(* C24 *)

\* the page is loaded in tab s in this step
PageLoaded(s) ==
    /\ variant = "local"
    /\ call' = call
    /\ lsComponents' = lsComponents
    /\ edit'[s] = NoEdit
    /\ list'[s] # list[s] \/ edit'[s] # edit[s]

\* C24: in the local build the component list is empty after the page has
\* been loaded again
C24_RefreshResets ==
    [][\A s \in Sessions : PageLoaded(s) => list'[s] = <<>>]_vars

----------------------------------------------------------------------------
(* C25 *)

\* C25: in the build with the global collection, a submit of one user whose
\* derived id is the id of a record of another user fails, and that record
\* stays as it is
C25_OtherOwnersRecordKept ==
    [][\A s \in Sessions :
          (/\ variant = "global"
           /\ Returns(s, "submit")
           /\ StoredRecord(components, call[s].id).exists
           /\ StoredRecord(components, call[s].id).uid # call[s].payload.uid)
          => /\ call'[s].phase = "failed"
             /\ StoredRecord(components', call[s].id) = StoredRecord(components, call[s].id)]_vars

----------------------------------------------------------------------------
(* Creates of one user in two tabs *)

\* names typed into the form by the two tabs
CreatorsNames == {CardName, LowerCardName, NavName}

\* the user is signed in in both tabs and nothing is stored
InitCreators ==
    /\ ResolverIdle
    /\ IdIdle
    /\ envKey = "valid"
    /\ variant \in {"local", "global"}
    /\ components = FreshStore
    /\ userComponents = [u \in Users |-> FreshStore]
    /\ lsComponents = <<>>
    /\ lsUser = IF variant = "local" THEN Principal ELSE Null
    /\ user = [s \in Sessions |-> Principal]
    /\ list = [s \in Sessions |-> <<>>]
    /\ call = [s \in Sessions |-> NoCall]
    /\ error = [s \in Sessions |-> Null]
    /\ edit = [s \in Sessions |-> NoEdit]

NextCreators ==
    \E s \in Sessions :
        \/ \E name \in CreatorsNames :
              handleSubmitLocal(s, name, "https://example.com/m", "https://example.com/l")
        \/ \E name \in CreatorsNames :
              handleSubmitGlobal(s, name, "https://example.com/m", "https://example.com/l")
        \/ WriteSettles(s)
        \/ WriteRejects(s)
        \/ SnapshotDelivered(s)
        \/ Mount(s)

CreatorsSpec == InitCreators /\ [][NextCreators]_vars

----------------------------------------------------------------------------
(* C26 *)

\* the last call of session s was a submit that created the record id
Created(s, id) ==
    call[s].handler = "submit" /\ call[s].phase = "done" /\ call[s].id = id

\* C26: while records are only created, no two tabs have both created a
\* record under the same id
C26_AtMostOneCreateSucceeds ==
    \A id \in HandlerIds : ~(Created("tabA", id) /\ Created("tabB", id))

----------------------------------------------------------------------------
(* The earlier resolvers: api/r/[slug].js and the RedirectHandler components *)

\* response.status(400).send('Invalid redirect link format.')
InvalidFormat400 ==
    [status |-> 400, location |-> NoLocation, body |-> "Invalid redirect link format."]

\* response.status(404).send('Component not found.')
ComponentNotFound404 ==
    [status |-> 404, location |-> NoLocation, body |-> "Component not found."]

\* response.status(404).send(`Branch "${branch}" not found.`)
BranchNotFound404(branch) ==
    [status |-> 404, location |-> NoLocation,
     body |-> "Branch \"" \o branch \o "\" not found."]

\* response.status(500).send('Internal Server Error')
InternalServerError500 ==
    [status |-> 500, location |-> NoLocation, body |-> "Internal Server Error"]

\* what a RedirectHandler component ends with: the message it shows and the
\* URL it handed to window.location.replace, if any
Page(message, target) == [status |-> 200, location |-> target, body |-> message]

\* the message of the error that getDoc rejected with
ErrMessage == "<err.message>"

\* window.location.pathname.split('/').filter(Boolean) of a path below /r/
PathParts(q) == <<"r">> \o q.slug

\* pathParts.length === 3 && pathParts[0] === 'r'
ValidPath(q) == Len(PathParts(q)) = 3 /\ PathParts(q)[1] = "r"

\* allComponents.find(c => c.id === componentId), as a snapshot
Find(items, componentId) ==
    IF \E k \in 1..Len(items) : items[k].id = componentId
    THEN LET k == CHOOSE k \in 1..Len(items) :
                     /\ items[k].id = componentId
                     /\ \A j \in 1..(k - 1) : items[j].id # componentId
         IN [exists |-> TRUE, uid |-> items[k].uid, name |-> items[k].name,
             mainUrl |-> items[k].mainUrl, latestUrl |-> items[k].latestUrl]
    ELSE NoDoc

\* the body of the RedirectHandler components once the record was looked up
ShowTarget(pathParts, found) ==
    LET componentId == pathParts[2]
        branch == pathParts[3]
        url == SelectUrl(branch, found) IN
    IF ~found.exists
    THEN Page("Error: Could not find a component with the ID \"" \o componentId \o "\".",
              NoLocation)
    ELSE IF Falsy(url)
    THEN Page("Error: Branch \"" \o branch \o "\" not found for this component.", NoLocation)
    ELSE Page("Redirecting to " \o branch \o " branch...", url)

\* docSnap.exists() on a snapshot of the Admin SDK, where `exists` is a
\* boolean property: the call throws a TypeError
AdminExistsCallThrows == TRUE

\* the try block of api/r/[slug].js after the await resolved with snap
SlugTryResume(q, snap) ==
    LET branch == q.slug[2] IN
    IF AdminExistsCallThrows
    THEN [kind |-> "throw", sent |-> <<>>]
    ELSE IF snap.exists
    THEN LET url == SelectUrl(branch, snap) IN
         IF Falsy(url)
         THEN [kind |-> "return", sent |-> <<BranchNotFound404(branch)>>]
         ELSE [kind |-> "return", sent |-> <<Redirect(307, url)>>]
    ELSE [kind |-> "return", sent |-> <<ComponentNotFound404>>]

\* the catch block of api/r/[slug].js
SlugCatch(outcome) ==
    IF outcome.kind = "throw"
    THEN [kind |-> "return", sent |-> outcome.sent \o <<InternalServerError500>>]
    ELSE outcome

\* the stores and the UI stay as they are while links are resolved
LinksFrame ==
    UNCHANGED <<envKey, adminApps, initError, components, uiVars, idVars>>

\* a request reaches api/r/[slug].js: the handler runs to its 400, or to
\* `await docRef.get()`
SlugInvoke(i, q) ==
    /\ variant = "global"
    /\ pc[i] = "idle"
    /\ query' = [query EXCEPT ![i] = q]
    /\ IF InvalidSlug(q)
       THEN /\ responses' = [responses EXCEPT ![i] = @ \o <<InvalidFormat400>>]
            /\ pc' = [pc EXCEPT ![i] = "returned"]
            /\ UNCHANGED <<lookup, reads>>
       ELSE /\ pc' = [pc EXCEPT ![i] = "awaitSlugGet"]
            /\ lookup' = [lookup EXCEPT ![i] = "pending"]
            /\ reads' = [reads EXCEPT ![i] = @ + 1]
            /\ UNCHANGED responses
    /\ UNCHANGED docSnap
    /\ LinksFrame

\* the store answers the read of api/r/[slug].js
SlugGetResolves(i) ==
    /\ pc[i] = "awaitSlugGet"
    /\ LET snap == Snapshot(components, query[i].slug[1])
           outcome == SlugCatch(SlugTryResume(query[i], snap)) IN
       /\ docSnap' = [docSnap EXCEPT ![i] = snap]
       /\ responses' = [responses EXCEPT ![i] = @ \o outcome.sent]
    /\ pc' = [pc EXCEPT ![i] = "returned"]
    /\ lookup' = [lookup EXCEPT ![i] = "resolved"]
    /\ UNCHANGED <<query, reads>>
    /\ LinksFrame

\* the store fails the read of api/r/[slug].js
SlugGetRejects(i) ==
    /\ pc[i] = "awaitSlugGet"
    /\ LET outcome == SlugCatch([kind |-> "throw", sent |-> <<>>]) IN
       responses' = [responses EXCEPT ![i] = @ \o outcome.sent]
    /\ pc' = [pc EXCEPT ![i] = "returned"]
    /\ lookup' = [lookup EXCEPT ![i] = "rejected"]
    /\ UNCHANGED <<query, docSnap, reads>>
    /\ LinksFrame

\* the page of the local build is opened on a path below /r/: the effect of
\* RedirectHandler runs to its end
RedirectHandlerLocal(i, q) ==
    /\ variant = "local"
    /\ pc[i] = "idle"
    /\ query' = [query EXCEPT ![i] = q]
    /\ IF ValidPath(q)
       THEN LET found == Find(lsComponents, PathParts(q)[2]) IN
            /\ docSnap' = [docSnap EXCEPT ![i] = found]
            /\ responses' = [responses EXCEPT ![i] = @ \o <<ShowTarget(PathParts(q), found)>>]
       ELSE /\ responses' = [responses EXCEPT ![i] =
                                @ \o <<Page("Error: Invalid redirect link format.", NoLocation)>>]
            /\ UNCHANGED docSnap
    /\ pc' = [pc EXCEPT ![i] = "returned"]
    /\ UNCHANGED <<lookup, reads>>
    /\ LinksFrame

\* the page of the build with the global collection is opened on a path
\* below /r/: findAndRedirect runs to its end, or to `await getDoc(docRef)`
RedirectHandlerGlobal(i, q) ==
    /\ variant = "global"
    /\ pc[i] = "idle"
    /\ query' = [query EXCEPT ![i] = q]
    /\ IF ValidPath(q)
       THEN /\ pc' = [pc EXCEPT ![i] = "awaitGetDoc"]
            /\ lookup' = [lookup EXCEPT ![i] = "pending"]
            /\ reads' = [reads EXCEPT ![i] = @ + 1]
            /\ UNCHANGED responses
       ELSE /\ responses' = [responses EXCEPT ![i] =
                                @ \o <<Page("Error: Invalid redirect link format.", NoLocation)>>]
            /\ pc' = [pc EXCEPT ![i] = "returned"]
            /\ UNCHANGED <<lookup, reads>>
    /\ UNCHANGED docSnap
    /\ LinksFrame

\* getDoc resolves: findAndRedirect continues to its end
GetDocResolves(i) ==
    /\ pc[i] = "awaitGetDoc"
    /\ LET snap == Snapshot(components, PathParts(query[i])[2]) IN
       /\ docSnap' = [docSnap EXCEPT ![i] = snap]
       /\ responses' = [responses EXCEPT ![i] = @ \o <<ShowTarget(PathParts(query[i]), snap)>>]
    /\ pc' = [pc EXCEPT ![i] = "returned"]
    /\ lookup' = [lookup EXCEPT ![i] = "resolved"]
    /\ UNCHANGED <<query, reads>>
    /\ LinksFrame

\* getDoc rejects: the catch block shows the error
GetDocRejects(i) ==
    /\ pc[i] = "awaitGetDoc"
    /\ responses' = [responses EXCEPT ![i] =
                        @ \o <<Page("Error fetching redirect link: " \o ErrMessage, NoLocation)>>]
    /\ pc' = [pc EXCEPT ![i] = "returned"]
    /\ lookup' = [lookup EXCEPT ![i] = "rejected"]
    /\ UNCHANGED <<query, docSnap, reads>>
    /\ LinksFrame

\* the paths that are opened: /r/, /r/<id>, /r/<id>/<branch>, /r/<id>/<branch>/extra
OpenedPaths == {q \in Queries : q.present}

\* the user has created the record 'Card', or nothing; api/r/[slug].js has
\* been loaded with a usable key
InitLinks ==
    /\ IdIdle
    /\ envKey = "valid"
    /\ variant \in {"local", "global"}
    /\ adminApps = IF variant = "global" THEN 1 ELSE 0
    /\ pc = [i \in Invocations |-> "idle"]
    /\ query = [i \in Invocations |-> NoSlugQuery]
    /\ initError = [i \in Invocations |-> FALSE]
    /\ lookup = [i \in Invocations |-> "none"]
    /\ docSnap = [i \in Invocations |-> NoDoc]
    /\ reads = [i \in Invocations |-> 0]
    /\ responses = [i \in Invocations |-> <<>>]
    /\ \E stored \in BOOLEAN :
          /\ components =
                IF variant = "global" /\ stored
                THEN [FreshStore EXCEPT !["card"] = CardRecord]
                ELSE FreshStore
          /\ lsComponents =
                IF variant = "local" /\ stored
                THEN <<Item("card", CardRecord)>>
                ELSE <<>>
    /\ userComponents = [u \in Users |-> FreshStore]
    /\ lsUser = IF variant = "local" THEN Principal ELSE Null
    /\ user = [s \in Sessions |-> Principal]
    /\ list = [s \in Sessions |-> SnapshotItems(components) \o lsComponents]
    /\ call = [s \in Sessions |-> NoCall]
    /\ error = [s \in Sessions |-> Null]
    /\ edit = [s \in Sessions |-> NoEdit]

NextLinks ==
    \E i \in Invocations :
        \/ \E q \in Queries : SlugInvoke(i, q)
        \/ SlugGetResolves(i)
        \/ SlugGetRejects(i)
        \/ \E q \in OpenedPaths : RedirectHandlerLocal(i, q)
        \/ \E q \in OpenedPaths : RedirectHandlerGlobal(i, q)
        \/ GetDocResolves(i)
        \/ GetDocRejects(i)

LinksSpec == InitLinks /\ [][NextLinks]_vars

----------------------------------------------------------------------------
(* C27 *)

\* the URLs stored in the records of the build
StoredUrls ==
    {v \in {components[id].mainUrl : id \in DOMAIN components}
           \cup {components[id].latestUrl : id \in DOMAIN components}
           \cup {lsComponents[k].mainUrl : k \in 1..Len(lsComponents)}
           \cup {lsComponents[k].latestUrl : k \in 1..Len(lsComponents)} :
        NonEmpty(v)}

\* the request of invocation i has a branch segment that is neither 'main'
\* nor 'latest'
OtherBranch(i) ==
    /\ query[i].present
    /\ Len(query[i].slug) >= 2
    /\ query[i].slug[2] \notin {"main", "latest"}

\* C27: in api/r/[slug].js and in the RedirectHandler components, a request
\* whose branch segment is neither 'main' nor 'latest' is never answered
\* with a redirect or a navigation to a URL stored in a record
C27_OnlyMainAndLatest ==
    \A i \in Invocations :
        OtherBranch(i) =>
            \A k \in 1..Len(responses[i]) : responses[i][k].location \notin StoredUrls

----------------------------------------------------------------------------
(* C28 *)

\* the handlers of src/src/App.js that write to the store
WritingHandlers == {"submit", "update", "delete"}

\* every write in flight was issued for a signed-in user
WritesHaveUser ==
    \A s \in Sessions :
        (variant = "peruser" /\ call[s].phase = "pending") => call[s].payload.uid # Null

\* C28: in src/src/App.js, handleSubmit, handleUpdateComponent and
\* handleDelete called while `user` is null return without issuing a write:
\* the call is rejected and no store changes
C28_NoWriteWithoutUser ==
    /\ []WritesHaveUser
    /\ [][\A s \in Sessions, h \in WritingHandlers :
             (variant = "peruser" /\ user[s] = Null /\ Called(s, h))
             => /\ call'[s].phase = "rejected"
                /\ Stores' = Stores]_vars

\* handleDelete was called without a user and returned at once, after an
\* earlier call of the session
C28_Witness ==
    /\ variant = "peruser"
    /\ user[FirstSession] = Null
    /\ call[FirstSession].handler = "delete"
    /\ call[FirstSession].phase = "rejected"
    /\ call[FirstSession].n > 1
    /\ \E id \in HandlerIds : userComponents[Principal][id].exists

----------------------------------------------------------------------------
(* C29 *)

\* the ids under which records are stored in the running build
StoredIds ==
    {lsComponents[k].id : k \in 1..Len(lsComponents)}
    \cup {id \in DOMAIN components : components[id].exists}
    \cup UNION {{id \in DOMAIN userComponents[u] : userComponents[u][id].exists} : u \in Users}

\* C29: every record created through handleSubmit is stored under a
\* non-empty id: no name that passes the non-blank check derives the empty id
C29_NoEmptyId == "" \notin StoredIds

----------------------------------------------------------------------------
(* C30 *)

\* session s is editing a record other than the one its call addresses
EditingAnother(s) == edit[s].id # Null /\ edit[s].id # call[s].id

\* C30: in the Firestore builds, when the update of one record ends while
\* another record is being edited, that record stays in edit mode with its
\* edit buffers as they were
C30_OtherEditKept ==
    [][\A s \in Sessions :
          (/\ variant \in {"global", "peruser"}
           /\ Returns(s, "update")
           /\ EditingAnother(s))
          => edit'[s] = edit[s]]_vars

====
